---- MODULE Spec2Model ----
(***************************************************************************)
(* Model of src/prototype_decryption_encryption/cuban_crow.py: the         *)
(* simulated upload (interrogation room + encryption key store + checksum  *)
(* computation) followed by the simulated download (re-enveloping for a    *)
(* second recipient, concatenation, decryption and checksum validation).   *)
(*                                                                         *)
(* A file is a flat sequence of integer "bytes".  Sizes are scaled down:   *)
(* a cipher segment is CIPHER_DIFF bytes of nonce/tag followed by at most  *)
(* SEGMENT_SIZE bytes of ciphertext, and PART_SIZE is a few segments long  *)
(* and not a multiple of CIPHER_SEGMENT_SIZE, as in the program            *)
(* (16 MiB against 65564).  sha256 is modelled as a perfect hash: the      *)
(* digest of a byte string is a wrapper around that byte string, so two    *)
(* digests are equal exactly when the hashed strings are equal.            *)
(***************************************************************************)
EXTENDS Integers, Sequences, FiniteSets, TLC

VARIABLES
    file,                      \* bytes of INPUT_DIR/50MiB.fasta.c4gh
    checksum,                  \* expected checksum handed to run()
    input,                     \* provenance of file: plaintext, body key, tampered segment
    pc,                        \* position of run()
    error,                     \* exception that ended run(), "" if none
    SESSION_KEY,               \* module-level global, 0 models the initial ""
    encryption_secret,         \* interrogation_room_upload locals
    encryption_secret_id,
    offset,
    pos,                       \* compute_checksums: position of source
    part,                      \* compute_checksums: last block read
    part_buffer,
    file_part,                 \* <<>> while the name is unbound, <<bytes>> once bound
    encrypted_part_checksums,
    total_checksum,            \* bytes fed to the running sha256 so far
    segments_decrypted,        \* indices of the body segments handed to decrypt_block
    encrypted_content,         \* OUTPUT_DIR/encrypted_content
    returned,                  \* <<>> or <<[parts, total]>> returned by compute_checksums
    upload_report,             \* what interrogation_room_upload printed
    downloaded_file,           \* OUTPUT_DIR/downloaded_file
    decrypted_content,         \* OUTPUT_DIR/decrypted_content
    download_report,           \* what download printed
    transfers                  \* per transfer: first file part, progress, key, envelope

vars == <<file, checksum, input, pc, error, SESSION_KEY, encryption_secret,
          encryption_secret_id, offset, pos, part, part_buffer, file_part,
          encrypted_part_checksums, total_checksum, segments_decrypted,
          encrypted_content, returned, upload_report, downloaded_file,
          decrypted_content, download_report, transfers>>

\* ------------------------------------------------------------------------
\* Bounds of the model
\* ------------------------------------------------------------------------
MaxPlainLen == 23              \* longest plaintext of an uploaded file
MaxPackets == 2                \* most packets in an uploaded header
NumSessionKeys == 2            \* session keys a file may be encrypted under

\* ------------------------------------------------------------------------
\* Program and library constants (scaled)
\* ------------------------------------------------------------------------
SEGMENT_SIZE == 2
CIPHER_DIFF == 1
CIPHER_SEGMENT_SIZE == SEGMENT_SIZE + CIPHER_DIFF
PART_SIZE == 11

MAGIC_NUMBER == 9001
VERSION == 1
PACKET_LEN == 3

GHGA_SEC == 1                  \* input_files/ghga.sec
RESEARCHER_2_SEC == 2          \* input_files/researcher_2.sec
RESEARCHER_1_SEC == 3          \* key of the uploading researcher
STRANGER_SEC == 4              \* a recipient that is neither GHGA nor researcher 2

\* ------------------------------------------------------------------------
\* Sequences of bytes
\* ------------------------------------------------------------------------
Min(a, b) == IF a < b THEN a ELSE b

\* data[:n]
Take(s, n) == SubSeq(s, 1, Min(n, Len(s)))

\* data[n:]
Drop(s, n) == SubSeq(s, Min(n, Len(s)) + 1, Len(s))

\* stream.read(n) at position p (0-based)
ReadAt(s, p, n) == Take(Drop(s, p), n)

\* hashlib.sha256(data).hexdigest(), a perfect hash
sha256(data) == [sha256 |-> data]

\* ------------------------------------------------------------------------
\* Keys and sealed header packets (crypt4gh.keys, crypt4gh.header)
\* ------------------------------------------------------------------------
PublicOf(sec) == sec + 50

\* X25519 key agreement: the same shared key from either side, a different
\* one for every other pair of keys
SharedKey(sec, pub) == 2 ^ sec + 2 ^ (pub - 50)

PacketTag(shared, ct) == 500 + 20 * shared + ct

\* crypt4gh.header.make_packet_data_enc(0, session_key)
make_packet_data_enc(session_key) == 200 + session_key

\* crypt4gh.header.encrypt for one (method 0, seckey, recipient pubkey) entry
SealPacket(payload, seckey, recipient_pub) ==
    LET shared == SharedKey(seckey, recipient_pub)
        ct == payload + shared
    IN  <<PublicOf(seckey), PacketTag(shared, ct), ct>>

\* crypt4gh.header.decrypt_packet for one (method 0, seckey, _) entry:
\* [ok |-> FALSE] when the sender is not the expected one or the tag fails
OpenPacket(packet, seckey, sender_pubkey) ==
    LET shared == SharedKey(seckey, packet[1])
    IN  IF sender_pubkey # 0 /\ sender_pubkey # packet[1]
        THEN [ok |-> FALSE, payload |-> 0]
        ELSE IF packet[2] # PacketTag(shared, packet[3])
        THEN [ok |-> FALSE, payload |-> 0]
        ELSE [ok |-> TRUE, payload |-> packet[3] - shared]

\* crypt4gh.header.serialize: magic, version, packet count, then each packet
\* behind its length prefix
RECURSIVE SerializePackets(_)
SerializePackets(packets) ==
    IF packets = <<>> THEN <<>>
    ELSE <<PACKET_LEN>> \o Head(packets) \o SerializePackets(Tail(packets))

serialize(packets) ==
    <<MAGIC_NUMBER, VERSION, Len(packets)>> \o SerializePackets(packets)

\* crypt4gh.header.parse: [ok, packets, tell]; the stream is left right
\* behind the last packet
RECURSIVE ParsePackets(_, _, _)
ParsePackets(stream, at, count) ==
    IF count = 0 THEN [ok |-> TRUE, packets |-> <<>>, tell |-> at]
    ELSE IF Len(stream) < at + 1 + PACKET_LEN \/ stream[at + 1] # PACKET_LEN
    THEN [ok |-> FALSE, packets |-> <<>>, tell |-> at]
    ELSE LET rest == ParsePackets(stream, at + 1 + PACKET_LEN, count - 1)
         IN  [ok |-> rest.ok,
              packets |-> <<ReadAt(stream, at + 1, PACKET_LEN)>> \o rest.packets,
              tell |-> rest.tell]

parse(stream) ==
    IF Len(stream) < 3 \/ stream[1] # MAGIC_NUMBER \/ stream[2] # VERSION
    THEN [ok |-> FALSE, packets |-> <<>>, tell |-> 0]
    ELSE ParsePackets(stream, 3, stream[3])

\* session keys of the packets that seckey opens, in header order; packets
\* it cannot open are skipped
RECURSIVE OpenedKeys(_, _, _)
OpenedKeys(packets, seckey, sender_pubkey) ==
    IF packets = <<>> THEN <<>>
    ELSE LET opened == OpenPacket(Head(packets), seckey, sender_pubkey)
             rest == OpenedKeys(Tail(packets), seckey, sender_pubkey)
         IN  IF opened.ok THEN <<opened.payload - 200>> \o rest ELSE rest

\* crypt4gh.header.deconstruct(stream, keys=[(0, seckey, None)], sender_pubkey):
\* raises when the header is malformed or no packet can be opened
deconstruct(stream, seckey, sender_pubkey) ==
    LET parsed == parse(stream)
        keys == OpenedKeys(parsed.packets, seckey, sender_pubkey)
    IN  [ok |-> parsed.ok /\ keys # <<>>, session_keys |-> keys, tell |-> parsed.tell]

\* ------------------------------------------------------------------------
\* Body segments (crypt4gh.lib)
\* ------------------------------------------------------------------------
ByteMod == 4

RECURSIVE EncodeBytes(_)
EncodeBytes(data) ==
    IF data = <<>> THEN 0 ELSE (Head(data) + 1) + (ByteMod + 1) * EncodeBytes(Tail(data))

\* the nonce/tag of a segment: authenticates the ciphertext under one key
SegmentTag(key, data) == 1000 * key + 100 + EncodeBytes(data)

EncryptBytes(key, data) == [i \in 1..Len(data) |-> (data[i] + key) % ByteMod]

DecryptBytes(key, data) == [i \in 1..Len(data) |-> (data[i] + ByteMod - key) % ByteMod]

\* crypt4gh.lib.encrypt: the body of a file, segment by segment
RECURSIVE EncryptBody(_, _)
EncryptBody(plain, key) ==
    IF plain = <<>> THEN <<>>
    ELSE LET data == EncryptBytes(key, Take(plain, SEGMENT_SIZE))
         IN  <<SegmentTag(key, data)>> \o data \o EncryptBody(Drop(plain, SEGMENT_SIZE), key)

\* mutant of decrypt_block: the tag of the segment is not checked
decrypt_block_Unauthenticated(ciphersegment, session_keys) ==
    IF session_keys = <<>> THEN [ok |-> FALSE, data |-> <<>>]
    ELSE [ok |-> TRUE,
          data |-> DecryptBytes(Head(session_keys), Drop(ciphersegment, CIPHER_DIFF))]

\* crypt4gh.lib.decrypt_block(ciphersegment, session_keys): the first key
\* under which the segment authenticates decrypts it, else the call raises
RECURSIVE decrypt_block(_, _)
decrypt_block(ciphersegment, session_keys) ==
    IF session_keys = <<>> THEN [ok |-> FALSE, data |-> <<>>]
    ELSE LET key == Head(session_keys)
             data == Drop(ciphersegment, CIPHER_DIFF)
         IN  IF ciphersegment[1] = SegmentTag(key, data)
             THEN [ok |-> TRUE, data |-> DecryptBytes(key, data)]
             ELSE decrypt_block(ciphersegment, Tail(session_keys))

\* crypt4gh.lib.body_decrypt: every segment of the body in turn
RECURSIVE body_decrypt(_, _)
body_decrypt(body, session_keys) ==
    IF body = <<>> THEN [ok |-> TRUE, data |-> <<>>]
    ELSE LET block == decrypt_block(Take(body, CIPHER_SEGMENT_SIZE), session_keys)
             rest == body_decrypt(Drop(body, CIPHER_SEGMENT_SIZE), session_keys)
         IN  [ok |-> block.ok /\ rest.ok, data |-> block.data \o rest.data]

\* crypt4gh.lib.decrypt(keys=[(0, seckey, _)], infile, outfile, sender_pubkey)
decrypt(seckey, infile, sender_pubkey) ==
    LET header == deconstruct(infile, seckey, sender_pubkey)
        body == body_decrypt(Drop(infile, header.tell), header.session_keys)
    IN  [ok |-> header.ok /\ body.ok, data |-> body.data]

\* ------------------------------------------------------------------------
\* Encryption key store
\* ------------------------------------------------------------------------
\* request_cryp4gh_private_key(): the GHGA private key
request_cryp4gh_private_key == GHGA_SEC

\* encryption_key_store_upload(file_part): the first session key the GHGA key
\* opens, its id, and the offset of the body; what it stores in SESSION_KEY
\* is session_key
encryption_key_store_upload(first_part) ==
    LET header == deconstruct(first_part, request_cryp4gh_private_key, 0)
        session_key == IF header.ok THEN header.session_keys[1] ELSE 0
    IN  [ok |-> header.ok,
         session_key |-> session_key,
         session_key_id |-> sha256(<<session_key>>),
         content_start |-> header.tell]

\* mutant of encryption_key_store_download: the envelope is sealed for the
\* wrong recipient
encryption_key_store_download_WrongRecipient(global_key) ==
    serialize(<<SealPacket(make_packet_data_enc(global_key), GHGA_SEC,
                           PublicOf(STRANGER_SEC))>>)

\* encryption_key_store_download(): a header of one packet that carries the
\* global session key, sealed by GHGA for researcher 2
encryption_key_store_download(global_key) ==
    serialize(<<SealPacket(make_packet_data_enc(global_key), GHGA_SEC,
                           PublicOf(RESEARCHER_2_SEC))>>)

\* ------------------------------------------------------------------------
\* Uploaded files
\* ------------------------------------------------------------------------
SessionKeys == 1..NumSessionKeys

Recipients == {PublicOf(GHGA_SEC), PublicOf(STRANGER_SEC)}

PlainText(n) == [i \in 1..n |-> i % 3]

NumSegments(n) == (n + SEGMENT_SIZE - 1) \div SEGMENT_SIZE

\* a header as the uploader wrote it: per packet a recipient and a session key
HeaderChoices == UNION {[1..n -> Recipients \X SessionKeys] : n \in 1..MaxPackets}

UploadedHeader(choice) ==
    serialize([i \in 1..Len(choice) |->
        SealPacket(make_packet_data_enc(choice[i][2]), RESEARCHER_1_SEC, choice[i][1])])

\* the body with one bit of the tag of segment j flipped; j = 0 leaves it intact
Tamper(body, j) ==
    IF j = 0 THEN body
    ELSE [body EXCEPT ![(j - 1) * CIPHER_SEGMENT_SIZE + 1] = @ + 1]

NoTransfers == <<>>

Init ==
    \E n \in 0..MaxPlainLen, key \in SessionKeys, choice \in HeaderChoices :
      \E j \in 0..NumSegments(n), expected \in {PlainText(n), <<ByteMod>>} :
        /\ file = UploadedHeader(choice) \o Tamper(EncryptBody(PlainText(n), key), j)
        /\ checksum = sha256(expected)
        /\ input = [plain |-> PlainText(n), key |-> key, header |-> choice, tampered |-> j]
        /\ pc = "upload"
        /\ error = ""
        /\ SESSION_KEY = 0
        /\ encryption_secret = 0
        /\ encryption_secret_id = sha256(<<>>)
        /\ offset = 0
        /\ pos = 0
        /\ part = <<>>
        /\ part_buffer = <<>>
        /\ file_part = <<>>
        /\ encrypted_part_checksums = <<>>
        /\ total_checksum = <<>>
        /\ segments_decrypted = <<>>
        /\ encrypted_content = <<>>
        /\ returned = <<>>
        /\ upload_report = ""
        /\ downloaded_file = <<>>
        /\ decrypted_content = <<>>
        /\ download_report = ""
        /\ transfers = NoTransfers

\* ------------------------------------------------------------------------
\* interrogation_room_upload
\* ------------------------------------------------------------------------
\* lines 65-70: read the first part and ask the key store for the secret
UploadKeyStore ==
    /\ pc = "upload"
    /\ LET result == encryption_key_store_upload(Take(file, PART_SIZE))
       IN  IF result.ok
           THEN /\ encryption_secret' = result.session_key
                /\ encryption_secret_id' = result.session_key_id
                /\ offset' = result.content_start
                /\ SESSION_KEY' = result.session_key
                /\ pc' = "compute_checksums"
                /\ error' = error
           ELSE /\ pc' = "crashed"
                /\ error' = "deconstruct"
                /\ UNCHANGED <<encryption_secret, encryption_secret_id, offset, SESSION_KEY>>
    /\ UNCHANGED <<file, checksum, input, pos, part, part_buffer, file_part,
                   encrypted_part_checksums, total_checksum, segments_decrypted,
                   encrypted_content, returned, upload_report, downloaded_file,
                   decrypted_content, download_report, transfers>>

\* lines 93-107: open both files, seek to the offset, read the first block
ComputeChecksumsOpen ==
    /\ pc = "compute_checksums"
    /\ total_checksum' = <<>>
    /\ encrypted_part_checksums' = <<>>
    /\ encrypted_content' = <<>>
    /\ part_buffer' = <<>>
    /\ part' = ReadAt(file, offset, CIPHER_SEGMENT_SIZE)
    /\ pos' = offset + Len(part')
    /\ pc' = "loop"
    /\ UNCHANGED <<file, checksum, input, error, SESSION_KEY, encryption_secret,
                   encryption_secret_id, offset, file_part, segments_decrypted,
                   returned, upload_report, downloaded_file, decrypted_content,
                   download_report, transfers>>

\* mutant of Write: every block overwrites the output instead of extending it
Write_Overwriting(outfile, data) == data

\* line 109: outfile.write(part)
Write(outfile, data) == outfile \o data

\* line 113: the buffer holds a whole part
PartReached(buffer) == Len(buffer) >= PART_SIZE

\* mutant of Truncate: the remainder behind the emitted part is dropped
Truncate_DroppingRemainder(buffer) == <<>>

\* line 117: part_buffer[PART_SIZE:]
Truncate(buffer) == Drop(buffer, PART_SIZE)

\* mutant of Update: the digest is restarted with every segment
Update_Restarting(digest, data) == data

\* line 122: total_checksum.update(decrypted)
Update(digest, data) == digest \o data

\* index (from 1) of the body segment held in part
SegmentIndex == (pos - Len(part) - offset) \div CIPHER_SEGMENT_SIZE + 1

\* lines 108-124: one iteration of the loop
ComputeChecksumsLoop ==
    /\ pc = "loop"
    /\ part # <<>>
    /\ encrypted_content' = Write(encrypted_content, part)
    /\ LET extended == part_buffer \o part
       IN  IF PartReached(extended)
           THEN /\ file_part' = <<Take(extended, PART_SIZE)>>
                /\ encrypted_part_checksums' =
                       Append(encrypted_part_checksums, sha256(Take(extended, PART_SIZE)))
                /\ part_buffer' = Truncate(extended)
           ELSE /\ part_buffer' = extended
                /\ UNCHANGED <<file_part, encrypted_part_checksums>>
    /\ segments_decrypted' = Append(segments_decrypted, SegmentIndex)
    /\ LET decrypted == decrypt_block(part, <<encryption_secret>>)
       IN  IF decrypted.ok
           THEN /\ total_checksum' = Update(total_checksum, decrypted.data)
                /\ part' = ReadAt(file, pos, CIPHER_SEGMENT_SIZE)
                /\ pos' = pos + Len(part')
                /\ UNCHANGED <<pc, error>>
           ELSE /\ pc' = "crashed"
                /\ error' = "decrypt_block"
                /\ UNCHANGED <<total_checksum, part, pos>>
    /\ UNCHANGED <<file, checksum, input, SESSION_KEY, encryption_secret,
                   encryption_secret_id, offset, returned, upload_report,
                   downloaded_file, decrypted_content, download_report, transfers>>

\* lines 125-130: the checksum of the last part, then the return
ComputeChecksumsLast ==
    /\ pc = "loop"
    /\ part = <<>>
    /\ IF part_buffer = <<>>
       THEN /\ returned' = <<[part_checksums |-> encrypted_part_checksums,
                             total_checksum |-> sha256(total_checksum)]>>
            /\ pc' = "validate_upload"
            /\ UNCHANGED <<encrypted_part_checksums, error>>
       ELSE IF file_part = <<>>
       THEN /\ pc' = "crashed"
            /\ error' = "file_part unbound"
            /\ UNCHANGED <<encrypted_part_checksums, returned>>
       ELSE /\ encrypted_part_checksums' =
                   Append(encrypted_part_checksums, sha256(file_part[1]))
            /\ returned' = <<[part_checksums |-> encrypted_part_checksums',
                             total_checksum |-> sha256(total_checksum)]>>
            /\ pc' = "validate_upload"
            /\ error' = error
    /\ UNCHANGED <<file, checksum, input, SESSION_KEY, encryption_secret,
                   encryption_secret_id, offset, pos, part, part_buffer, file_part,
                   total_checksum, segments_decrypted, encrypted_content,
                   upload_report, downloaded_file, decrypted_content,
                   download_report, transfers>>

\* mutant of UploadValidate: the checksum is reported as validated whatever
\* the digest
UploadValidate_AlwaysValidated ==
    /\ pc = "validate_upload"
    /\ upload_report' = "validated"
    /\ pc' = "download"
    /\ UNCHANGED <<file, checksum, input, error, SESSION_KEY, encryption_secret,
                   encryption_secret_id, offset, pos, part, part_buffer, file_part,
                   encrypted_part_checksums, total_checksum, segments_decrypted,
                   encrypted_content, returned, downloaded_file, decrypted_content,
                   download_report, transfers>>

\* lines 74-82: compare the whole-file digest with the expected checksum
UploadValidate ==
    /\ pc = "validate_upload"
    /\ upload_report' = IF returned[1].total_checksum = checksum
                        THEN "validated" ELSE "mismatch"
    /\ pc' = "download"
    /\ UNCHANGED <<file, checksum, input, error, SESSION_KEY, encryption_secret,
                   encryption_secret_id, offset, pos, part, part_buffer, file_part,
                   encrypted_part_checksums, total_checksum, segments_decrypted,
                   encrypted_content, returned, downloaded_file, decrypted_content,
                   download_report, transfers>>

\* ------------------------------------------------------------------------
\* download
\* ------------------------------------------------------------------------
\* lines 197-200: the envelope, then a copy of the encrypted content
Concatenate(envelope, content) == envelope \o content

\* lines 192-200: the envelope for researcher 2, then the encrypted content
DownloadConcatenate ==
    /\ pc = "download"
    /\ downloaded_file' = Concatenate(encryption_key_store_download(SESSION_KEY), encrypted_content)
    /\ pc' = "decrypt"
    /\ UNCHANGED <<file, checksum, input, error, SESSION_KEY, encryption_secret,
                   encryption_secret_id, offset, pos, part, part_buffer, file_part,
                   encrypted_part_checksums, total_checksum, segments_decrypted,
                   encrypted_content, returned, upload_report, decrypted_content,
                   download_report, transfers>>

\* lines 202-215: decrypt the downloaded file with the key of researcher 2
DownloadDecrypt ==
    /\ pc = "decrypt"
    /\ LET result == decrypt(RESEARCHER_2_SEC, downloaded_file, PublicOf(GHGA_SEC))
       IN  /\ decrypted_content' = result.data
           /\ pc' = IF result.ok THEN "validate_download" ELSE "crashed"
           /\ error' = IF result.ok THEN error ELSE "decrypt"
    /\ UNCHANGED <<file, checksum, input, SESSION_KEY, encryption_secret,
                   encryption_secret_id, offset, pos, part, part_buffer, file_part,
                   encrypted_part_checksums, total_checksum, segments_decrypted,
                   encrypted_content, returned, upload_report, downloaded_file,
                   download_report, transfers>>

\* lines 217-226: compare the digest of the decrypted file with the checksum
DownloadValidate ==
    /\ pc = "validate_download"
    /\ LET computed_checksum == sha256(decrypted_content)
       IN  download_report' = IF checksum # computed_checksum
                              THEN "mismatch" ELSE "valid"
    /\ pc' = "done"
    /\ UNCHANGED <<file, checksum, input, error, SESSION_KEY, encryption_secret,
                   encryption_secret_id, offset, pos, part, part_buffer, file_part,
                   encrypted_part_checksums, total_checksum, segments_decrypted,
                   encrypted_content, returned, upload_report, downloaded_file,
                   decrypted_content, transfers>>

Next ==
    \/ UploadKeyStore
    \/ ComputeChecksumsOpen
    \/ ComputeChecksumsLoop
    \/ ComputeChecksumsLast
    \/ UploadValidate
    \/ DownloadConcatenate
    \/ DownloadDecrypt
    \/ DownloadValidate

Spec == Init /\ [][Next]_vars

\* ------------------------------------------------------------------------
\* Two transfers served by one process: the key store is asked to handle
\* the upload of each and later to build the download envelope of each, the
\* calls of the two transfers in any order
\* ------------------------------------------------------------------------
Transfers == 1..2

\* the headers GHGA can open
OpenableChoices ==
    {choice \in HeaderChoices :
        encryption_key_store_upload(Take(UploadedHeader(choice), PART_SIZE)).ok}

InitTransfers ==
    \E first \in OpenableChoices, second \in OpenableChoices :
        /\ encryption_key_store_upload(Take(UploadedHeader(first), PART_SIZE)).session_key
             # encryption_key_store_upload(Take(UploadedHeader(second), PART_SIZE)).session_key
        /\ transfers = [t \in Transfers |->
                          [first_part |-> Take(UploadedHeader(IF t = 1 THEN first ELSE second),
                                               PART_SIZE),
                           stage |-> "new",
                           session_key |-> 0,
                           envelope |-> <<>>]]
        /\ file = <<>>
        /\ checksum = sha256(<<>>)
        /\ input = [plain |-> <<>>, key |-> 0, header |-> <<>>, tampered |-> 0]
        /\ pc = "serving"
        /\ error = ""
        /\ SESSION_KEY = 0
        /\ encryption_secret = 0
        /\ encryption_secret_id = sha256(<<>>)
        /\ offset = 0
        /\ pos = 0
        /\ part = <<>>
        /\ part_buffer = <<>>
        /\ file_part = <<>>
        /\ encrypted_part_checksums = <<>>
        /\ total_checksum = <<>>
        /\ segments_decrypted = <<>>
        /\ encrypted_content = <<>>
        /\ returned = <<>>
        /\ upload_report = ""
        /\ downloaded_file = <<>>
        /\ decrypted_content = <<>>
        /\ download_report = ""

\* lines 133-160 for transfer t: the key it returns, and its write to the global
TransferUpload(t) ==
    /\ transfers[t].stage = "new"
    /\ LET result == encryption_key_store_upload(transfers[t].first_part)
       IN  /\ SESSION_KEY' = result.session_key
           /\ transfers' = [transfers EXCEPT ![t].stage = "uploaded",
                                             ![t].session_key = result.session_key]
    /\ UNCHANGED <<file, checksum, input, pc, error, encryption_secret,
                   encryption_secret_id, offset, pos, part, part_buffer, file_part,
                   encrypted_part_checksums, total_checksum, segments_decrypted,
                   encrypted_content, returned, upload_report, downloaded_file,
                   decrypted_content, download_report>>

\* lines 163-175 for transfer t: the envelope built from the global
TransferDownload(t) ==
    /\ transfers[t].stage = "uploaded"
    /\ transfers' = [transfers EXCEPT ![t].stage = "downloaded",
                                      ![t].envelope = encryption_key_store_download(SESSION_KEY)]
    /\ UNCHANGED <<file, checksum, input, pc, error, SESSION_KEY, encryption_secret,
                   encryption_secret_id, offset, pos, part, part_buffer, file_part,
                   encrypted_part_checksums, total_checksum, segments_decrypted,
                   encrypted_content, returned, upload_report, downloaded_file,
                   decrypted_content, download_report>>

NextTransfers ==
    \/ \E t \in Transfers : TransferUpload(t)
    \/ \E t \in Transfers : TransferDownload(t)

SpecTransfers == InitTransfers /\ [][NextTransfers]_vars

\* ------------------------------------------------------------------------
\* Properties
\* ------------------------------------------------------------------------
\* the ciphertext body: the uploaded file from the offset to its end
Body == Drop(file, offset)

CeilDiv(a, b) == (a + b - 1) \div b

Iota(n) == [i \in 1..n |-> i]

\* segment i (from 1) of the body
BodySegment(i) == ReadAt(Body, (i - 1) * CIPHER_SEGMENT_SIZE, CIPHER_SEGMENT_SIZE)

\* compute_checksums has read the body to its end
BodyConsumed ==
    \/ pc \in {"validate_upload", "download", "decrypt", "validate_download", "done"}
    \/ error = "file_part unbound"

\* the bytes the digests of a list hash, one after the other
RECURSIVE Hashed(_)
Hashed(digests) ==
    IF digests = <<>> THEN <<>> ELSE Head(digests).sha256 \o Hashed(Tail(digests))

\* C1: once compute_checksums has read a body of n bytes to its end it returns
\* exactly ceil(n / PART_SIZE) part digests, also for a body shorter than
\* PART_SIZE.
C1_PartCount ==
    BodyConsumed =>
        /\ returned # <<>>
        /\ Len(returned[1].part_checksums) = CeilDiv(Len(Body), PART_SIZE)

\* C2: the i-th part digest returned by compute_checksums is the digest of
\* the body bytes [i * PART_SIZE, min((i + 1) * PART_SIZE, n)), the last one
\* being taken over the bytes that remain in the part buffer.
C2_PartContents ==
    returned # <<>> =>
        \A i \in 1..Len(returned[1].part_checksums) :
            returned[1].part_checksums[i] =
                sha256(SubSeq(Body, (i - 1) * PART_SIZE + 1, Min(i * PART_SIZE, Len(Body))))

\* C3: the whole-file digest returned by compute_checksums is the digest of
\* the plaintexts of all segments of the body in body order, every segment
\* having been decrypted exactly once, whatever the part boundaries.
C3_WholeFileDigest ==
    returned # <<>> =>
        /\ returned[1].total_checksum =
               sha256(body_decrypt(Body, <<encryption_secret>>).data)
        /\ returned[1].total_checksum = sha256(input.plain)
        /\ segments_decrypted = Iota(CeilDiv(Len(Body), CIPHER_SEGMENT_SIZE))

\* a result for a body of several parts whose last segment is a short one
C3_Witness ==
    /\ returned # <<>>
    /\ Len(returned[1].part_checksums) >= 3
    /\ Len(Body) % CIPHER_SEGMENT_SIZE # 0
    /\ PART_SIZE % CIPHER_SEGMENT_SIZE # 0

\* C4: whatever the order of the upload and download calls of two transfers,
\* the envelope built for a transfer carries the session key that the upload
\* of that same transfer extracted.
C4_KeyPerTransfer ==
    \A t \in DOMAIN transfers :
        transfers[t].stage = "downloaded" =>
            deconstruct(transfers[t].envelope, RESEARCHER_2_SEC,
                        PublicOf(GHGA_SEC)).session_keys = <<transfers[t].session_key>>

\* C5: downloaded_file is the new header followed by the bytes of the
\* uploaded file from the offset reported by header decoding to its end;
\* that offset is the end of the uploaded header.
C5_BodyUnchanged ==
    pc \in {"decrypt", "validate_download", "done"} =>
        LET envelope == encryption_key_store_download(SESSION_KEY)
        IN  /\ offset = Len(UploadedHeader(input.header))
            /\ Take(downloaded_file, Len(envelope)) = envelope
            /\ parse(downloaded_file).tell = Len(envelope)
            /\ Drop(downloaded_file, Len(envelope)) = Drop(file, offset)

\* a finished download of a body longer than one part
C5_Witness ==
    /\ pc = "done"
    /\ Len(Body) > PART_SIZE
    /\ Len(downloaded_file) > Len(Body)

\* the header carries two session keys for GHGA and only the second one
\* authenticates the first segment of the intact body
SecondKeyOnly ==
    /\ Len(input.header) = 2
    /\ input.header[1][1] = PublicOf(GHGA_SEC)
    /\ input.header[2][1] = PublicOf(GHGA_SEC)
    /\ input.header[1][2] # input.key
    /\ input.header[2][2] = input.key
    /\ input.tampered = 0
    /\ input.plain # <<>>

\* C6: with two session-key packets of which only the second authenticates
\* the first body segment, decryption of the body succeeds and that key
\* decrypts all segments.
C6_SecondKeyUsed ==
    SecondKeyOnly =>
        /\ error # "decrypt_block"
        /\ pc \notin {"upload", "crashed"} => encryption_secret = input.key

\* the packets of an uploaded header that are sealed for pub, in header order
KeysFor(choice, pub) == SelectSeq(choice, LAMBDA c : c[1] = pub)

\* C7: the header of a file encrypted under K and wrapped for GHGA decodes
\* with the GHGA key to K; the header built for researcher 2 decodes with the
\* key of researcher 2 to the same K, and decrypting the downloaded file
\* gives the plaintext and the whole-file digest of the upload.
C7_RoundTrip ==
    /\ ( /\ pc \notin {"upload", "crashed"}
         /\ KeysFor(input.header, PublicOf(GHGA_SEC)) # <<>> )
       => encryption_secret = KeysFor(input.header, PublicOf(GHGA_SEC))[1][2]
    /\ pc \in {"decrypt", "validate_download", "done"} =>
           deconstruct(downloaded_file, RESEARCHER_2_SEC,
                       PublicOf(GHGA_SEC)).session_keys = <<encryption_secret>>
    /\ pc \in {"validate_download", "done"} =>
           /\ decrypted_content = input.plain
           /\ decrypted_content = body_decrypt(Body, <<encryption_secret>>).data
           /\ sha256(decrypted_content) = returned[1].total_checksum

\* a finished download of a non-empty file whose header wraps its key for GHGA
C7_Witness ==
    /\ pc = "done"
    /\ input.plain # <<>>
    /\ input.header = <<<<PublicOf(GHGA_SEC), input.key>>>>
    /\ encryption_secret = input.key

\* the first segment of the body that does not authenticate under the secret
FailingSegment ==
    CHOOSE i \in 1..CeilDiv(Len(Body), CIPHER_SEGMENT_SIZE) :
        /\ ~decrypt_block(BodySegment(i), <<encryption_secret>>).ok
        /\ \A j \in 1..(i - 1) : decrypt_block(BodySegment(j), <<encryption_secret>>).ok

\* C8: a body with a segment whose tag fails never yields a result, and the
\* checksum operation stops at the first such segment: it is the last one
\* handed to decrypt_block, nothing behind it is read, fed to the digest or
\* returned.
C8_AbortOnTamper ==
    /\ input.tampered > 0 =>
           /\ returned = <<>>
           /\ upload_report = ""
           /\ download_report = ""
    /\ error = "decrypt_block" =>
           /\ pc = "crashed"
           /\ returned = <<>>
           /\ segments_decrypted = Iota(FailingSegment)
           /\ pos = offset + Len(encrypted_content)
           /\ total_checksum =
                  body_decrypt(Take(Body, (FailingSegment - 1) * CIPHER_SEGMENT_SIZE),
                               <<encryption_secret>>).data

\* an abort at a tampered segment in the middle of the body, behind the
\* first part digest
C8_Witness ==
    /\ error = "decrypt_block"
    /\ input.tampered > 1
    /\ input.tampered < CeilDiv(Len(Body), CIPHER_SEGMENT_SIZE)
    /\ encrypted_part_checksums # <<>>
    /\ Len(segments_decrypted) = input.tampered

\* C9: each of upload and download reports exactly one of validated and
\* mismatch, only after the file has been processed to its end, validated
\* exactly when the computed digest is the expected one, and then goes on
\* normally.
C9_MismatchReported ==
    /\ upload_report \in {"", "validated", "mismatch"}
    /\ download_report \in {"", "valid", "mismatch"}
    /\ upload_report # "" <=> pc \in {"download", "decrypt", "validate_download", "done"}
    /\ upload_report # "" =>
           /\ returned # <<>>
           /\ pos = Len(file)
           /\ encrypted_content = Body
           /\ upload_report = "validated" <=> returned[1].total_checksum = checksum
    /\ download_report # "" <=> pc = "done"
    /\ download_report # "" =>
           /\ decrypted_content = body_decrypt(Body, <<encryption_secret>>).data
           /\ download_report = "valid" <=> sha256(decrypted_content) = checksum
           /\ error = ""

\* a run that reported a mismatch twice and ended normally
C9_Witness ==
    /\ pc = "done"
    /\ upload_report = "mismatch"
    /\ download_report = "mismatch"
    /\ input.plain # <<>>

\* C10: with CIPHER_SEGMENT_SIZE <= PART_SIZE, after every iteration of the
\* loop the part buffer is shorter than PART_SIZE, its length is the number of
\* body bytes taken so far minus PART_SIZE per emitted digest, at most one
\* digest was emitted per segment, and the emitted parts followed by the
\* buffer are the bytes taken so far.
C10_PartBuffer ==
    (CIPHER_SEGMENT_SIZE <= PART_SIZE /\ pc = "loop") =>
        /\ Len(part_buffer) < PART_SIZE
        /\ Len(part_buffer) =
               (pos - Len(part) - offset) - PART_SIZE * Len(encrypted_part_checksums)
        /\ Len(encrypted_part_checksums) <= Len(segments_decrypted)
        /\ Hashed(encrypted_part_checksums) \o part_buffer
               = Take(Body, pos - Len(part) - offset)

\* the loop after an iteration that emitted the third digest and kept a
\* remainder
C10_Witness ==
    /\ pc = "loop"
    /\ Len(encrypted_part_checksums) = 3
    /\ part_buffer # <<>>
    /\ Len(part_buffer) < CIPHER_SEGMENT_SIZE

====
